---- MODULE Spec2Model ----
(***************************************************************************)
(* Conway's Game of Life on a fixed rectangular board (src/main.py).       *)
(* A Board is a Python list of Cells with a shape; a Life holds a Board,   *)
(* the cached set of alive flat indices and a generation counter.          *)
(*                                                                         *)
(* Python lists are modelled as functions over 0..n-1, a Cell as its       *)
(* boolean state: every Board factory stores one fresh Cell per position   *)
(* (lines 45, 56, 60), so a position and its Cell are identified.          *)
(***************************************************************************)
EXTENDS Integers, FiniteSets, Sequences, TLC

VARIABLES
    pc,           \* "start" | "board" | "life" | "failed": what the caller holds
    call,         \* the constructor call that was made: its name and arguments
    shape,        \* Board.__shape = <<rows, cols>>
    board,        \* the Board's list of Cells, position -> alive
    alive_cells,  \* Life.__alive_cells
    generation,   \* Life.generation
    op,           \* the last Board.__getitem__ / __setitem__ call and its arguments
    ret,          \* what the last __getitem__ returned
    raised,       \* the exception the last call raised, "none" when it returned
    frame         \* the update() call in progress: its iterator, its two lists,
                  \* how far its loops are, and the Life as it was on entry

vars == <<pc, call, shape, board, alive_cells, generation, op, ret, raised, frame>>

----------------------------------------------------------------------------
(* Bounds of the model *)

\* rows and cols range over 0..MaxSide
MaxSide == 3
\* exhaustively enumerated boards hold at most MaxCells cells
MaxCells == 9
\* update() is called at most MaxGen times on one Life
MaxGen == 4
\* explicit cell lists handed to a constructor hold at most MaxListLen entries
MaxListLen == 4
\* pattern boards (block, blinker, glider) are up to Slack larger than the
\* smallest board the pattern needs
Slack == 1

----------------------------------------------------------------------------
(* Python lists as functions over 0..n-1 *)

Length(list) == Cardinality(DOMAIN list)

Range(n) == 0 .. (n - 1)

EmptyList == [i \in {} |-> FALSE]

Rows(shp) == shp[1]

Cols(shp) == shp[2]

\* bool(state) of an int: zero is falsy, everything else truthy
Truthy(state) == state # 0

----------------------------------------------------------------------------
(* Coordinate conversion *)

\* unravel dividing by the number of rows
unravel_by_rows(idx, shp) == <<idx \div Rows(shp), idx % Rows(shp)>>

unravel(idx, shp) == <<idx \div Cols(shp), idx % Cols(shp)>>

flatten(idx2, shp) == idx2[1] * Cols(shp) + idx2[2]

----------------------------------------------------------------------------
(* Board *)

\* list.__getitem__ / list.__setitem__ index resolution: a negative index
\* counts from the end, anything outside [-len, len) is an IndexError
ListIndex(idx, len) ==
    IF 0 <= idx /\ idx < len THEN [ok |-> TRUE, pos |-> idx]
    ELSE IF -len <= idx /\ idx < 0 THEN [ok |-> TRUE, pos |-> idx + len]
    ELSE [ok |-> FALSE, pos |-> idx]

\* Board.__validate_idx for an int index: the chained comparison
\* 0 > idx >= len(self) is (0 > idx) and (idx >= len(self))
validate_idx(idx, len) ==
    IF 0 > idx /\ idx >= len
    THEN [ok |-> FALSE, idx |-> idx]
    ELSE [ok |-> TRUE, idx |-> idx]

\* self.board[idx] as Life reads it: the Cell at the resolved position
cell_at(cells, idx) == cells[ListIndex(validate_idx(idx, Length(cells)).idx, Length(cells)).pos]

\* Board.__validate_idx for a tuple index: the assert on its length, then
\* __flatten, then the same chained comparison on the flat index
\* __validate_idx for a tuple that tests the row and the column
validate_idx2_tests_coords(idx2, shp, len) ==
    IF \/ idx2[1] < 0 \/ idx2[1] >= Rows(shp)
       \/ idx2[2] < 0 \/ idx2[2] >= Cols(shp)
    THEN [ok |-> FALSE, idx |-> flatten(idx2, shp)]
    ELSE [ok |-> TRUE, idx |-> flatten(idx2, shp)]

validate_idx2(idx2, shp, len) ==
    IF 0 > flatten(idx2, shp) /\ flatten(idx2, shp) >= len
    THEN [ok |-> FALSE, idx |-> flatten(idx2, shp)]
    ELSE [ok |-> TRUE, idx |-> flatten(idx2, shp)]

\* Cell.set_state on the Cell at a position of the list
set_state(cells, pos, state) == [cells EXCEPT ![pos] = state]

\* Board.__init__ default: one dead Cell per position
default_initial(shp) == [i \in Range(Rows(shp) * Cols(shp)) |-> FALSE]

\* Board.from_list: Cell(bool(state)) for each entry
from_list_initial(list_) == [i \in DOMAIN list_ |-> Truthy(list_[i])]

\* from_indices with the range starting at 1
from_indices_initial_off_by_one(shp, list_) ==
    [idx \in Range(Rows(shp) * Cols(shp)) |-> (idx + 1) \in list_]

\* Board.from_indices: Cell(idx in list_) for idx in range(rows * cols)
from_indices_initial(shp, list_) == [idx \in Range(Rows(shp) * Cols(shp)) |-> idx \in list_]

\* Board.__init__ without the assert
Board__init__no_assert(shp, initial) ==
    /\ pc' = "board"
    /\ shape' = shp
    /\ board' = initial
    /\ raised' = "none"

\* Board.__init__: the assert on the length, then the list is filled
Board__init__(shp, initial) ==
    IF Length(initial) = Rows(shp) * Cols(shp)
    THEN /\ pc' = "board"
         /\ shape' = shp
         /\ board' = initial
         /\ raised' = "none"
    ELSE /\ pc' = "failed"
         /\ raised' = "AssertionError"
         /\ UNCHANGED <<shape, board>>

----------------------------------------------------------------------------
(* Life: the rule *)

\* get_neighbours_idx without neighbours.discard(idx)
get_neighbours_idx_with_self(idx, shp) ==
    LET row == unravel(idx, shp)[1]
        col == unravel(idx, shp)[2]
    IN  { flatten(<<row + rc[1], col + rc[2]>>, shp) :
            rc \in { p \in {-1, 0, 1} \X {-1, 0, 1} :
                        /\ 0 <= row + p[1] /\ row + p[1] < Rows(shp)
                        /\ 0 <= col + p[2] /\ col + p[2] < Cols(shp) } }

\* get_neighbours_idx without the bounds test on the column: the flat index
\* of a column off the edge is a cell at the other edge
get_neighbours_idx_no_col_test(idx, shp) ==
    LET row == unravel(idx, shp)[1]
        col == unravel(idx, shp)[2]
    IN  { flatten(<<row + rc[1], col + rc[2]>>, shp) :
            rc \in { p \in {-1, 0, 1} \X {-1, 0, 1} :
                        /\ 0 <= row + p[1] /\ row + p[1] < Rows(shp)
                        /\ 0 <= flatten(<<row + p[1], col + p[2]>>, shp)
                        /\ flatten(<<row + p[1], col + p[2]>>, shp) < Rows(shp) * Cols(shp) } }
        \ {idx}

get_neighbours_idx(idx, shp) ==
    LET row == unravel(idx, shp)[1]
        col == unravel(idx, shp)[2]
    IN  { flatten(<<row + rc[1], col + rc[2]>>, shp) :
            rc \in { p \in {-1, 0, 1} \X {-1, 0, 1} :
                        /\ 0 <= row + p[1] /\ row + p[1] < Rows(shp)
                        /\ 0 <= col + p[2] /\ col + p[2] < Cols(shp) } }
        \ {idx}

get_alive_neighbours(idx, alive, shp) == alive \cap get_neighbours_idx(idx, shp)

\* cells_to_check without the neighbours of the alive cells
cells_to_check_alive_only(alive, shp) == alive

\* cells_to_check as a scan of the whole board
cells_to_check_whole_board(alive, shp) == Range(Rows(shp) * Cols(shp))

cells_to_check(alive, shp) ==
    alive \cup UNION { get_neighbours_idx(idx, shp) : idx \in alive }

\* should_die with the upper limit off by one: three neighbours kill
should_die_off_by_one(idx, cells, alive, shp) ==
    IF ~cell_at(cells, idx) THEN FALSE
    ELSE LET n_alive_neighbours == Cardinality(get_alive_neighbours(idx, alive, shp))
         IN  n_alive_neighbours >= 3 \/ n_alive_neighbours < 2

should_die(idx, cells, alive, shp) ==
    IF ~cell_at(cells, idx) THEN FALSE
    ELSE LET n_alive_neighbours == Cardinality(get_alive_neighbours(idx, alive, shp))
         IN  n_alive_neighbours > 3 \/ n_alive_neighbours < 2

\* should_resurrect with >= for ==
should_resurrect_no_alive_test(idx, cells, alive, shp) ==
    LET n_alive_neighbours == Cardinality(get_alive_neighbours(idx, alive, shp))
    IN  n_alive_neighbours = 3

should_resurrect_at_least_3(idx, cells, alive, shp) ==
    IF cell_at(cells, idx) THEN FALSE
    ELSE LET n_alive_neighbours == Cardinality(get_alive_neighbours(idx, alive, shp))
         IN  n_alive_neighbours >= 3

should_resurrect(idx, cells, alive, shp) ==
    IF cell_at(cells, idx) THEN FALSE
    ELSE LET n_alive_neighbours == Cardinality(get_alive_neighbours(idx, alive, shp))
         IN  n_alive_neighbours = 3

\* the indices update() collects in to_set_dead
to_set_dead(cells, alive, shp) ==
    { idx \in cells_to_check(alive, shp) : should_die(idx, cells, alive, shp) }

\* the indices update() collects in to_set_alive
to_set_alive(cells, alive, shp) ==
    { idx \in cells_to_check(alive, shp) :
        ~should_die(idx, cells, alive, shp) /\ should_resurrect(idx, cells, alive, shp) }

\* for idx in to_set_alive: board[idx].set_alive(); alive_cells.add(idx)
apply_births(life, births) ==
    [cells |-> [i \in DOMAIN life.cells |->
                    IF \E idx \in births : ListIndex(idx, Length(life.cells)).pos = i
                    THEN TRUE ELSE life.cells[i]],
     alive |-> life.alive \cup births]

\* the death loop without alive_cells.discard(idx)
apply_deaths_no_discard(life, deaths) ==
    [cells |-> [i \in DOMAIN life.cells |->
                    IF \E idx \in deaths : ListIndex(idx, Length(life.cells)).pos = i
                    THEN FALSE ELSE life.cells[i]],
     alive |-> life.alive]

\* the death loop without board[idx].set_dead()
apply_deaths_no_set_dead(life, deaths) ==
    [cells |-> life.cells, alive |-> life.alive \ deaths]

\* for idx in to_set_dead: board[idx].set_dead(); alive_cells.discard(idx)
apply_deaths(life, deaths) ==
    [cells |-> [i \in DOMAIN life.cells |->
                    IF \E idx \in deaths : ListIndex(idx, Length(life.cells)).pos = i
                    THEN FALSE ELSE life.cells[i]],
     alive |-> life.alive \ deaths]

\* Life.board setter: the alive set is rebuilt from the board
board_setter(new_board) == { i \in DOMAIN new_board : new_board[i] }

\* Life.dead
dead(alive) == alive = {}

\* no update() call is in progress
IdleFrame ==
    [pc |-> "idle", todo |-> {}, to_set_alive |-> <<>>, to_set_dead |-> <<>>,
     born |-> 0, died |-> 0, entry |-> [cells |-> EmptyList, alive |-> {}]]

\* the body of the loop over the candidates, for the candidate idx: it is
\* appended to to_set_dead, or else to to_set_alive, or to neither
classify(fr, idx, cells, alive, shp) ==
    IF should_die(idx, cells, alive, shp)
    THEN [fr EXCEPT !.todo = @ \ {idx}, !.to_set_dead = Append(@, idx)]
    ELSE IF should_resurrect(idx, cells, alive, shp)
         THEN [fr EXCEPT !.todo = @ \ {idx}, !.to_set_alive = Append(@, idx)]
         ELSE [fr EXCEPT !.todo = @ \ {idx}]

----------------------------------------------------------------------------
(* Inputs *)

Shapes == { shp \in (0 .. MaxSide) \X (0 .. MaxSide) : Rows(shp) * Cols(shp) <= MaxCells }

\* explicit lists of Cells, and of ints, of every length up to MaxListLen
CellLists == UNION { [Range(n) -> BOOLEAN] : n \in 0 .. MaxListLen }

IntLists == UNION { [Range(n) -> {0, 1, 2}] : n \in 0 .. MaxListLen }

\* the flat index a caller computes for the cell in row r, column c
Flat(r, c, shp) == r * Cols(shp) + c

\* the 2x2 block whose upper left cell is (r, c)
Block(r, c, shp) == { Flat(r + d[1], c + d[2], shp) : d \in {0, 1} \X {0, 1} }

\* the horizontal and the vertical blinker centred on (5, 5)
BlinkerH(shp) == { Flat(5, 4, shp), Flat(5, 5, shp), Flat(5, 6, shp) }

BlinkerV(shp) == { Flat(4, 5, shp), Flat(5, 5, shp), Flat(6, 5, shp) }

\* the standard glider in the 3x3 box whose upper left cell is (r, c)
Glider(r, c, shp) ==
    { Flat(r + d[1], c + d[2], shp) : d \in {<<0, 1>>, <<1, 2>>, <<2, 0>>, <<2, 1>>, <<2, 2>>} }

\* every block on every board of up to (4 + Slack) x (4 + Slack) cells
BlockInputs ==
    { <<<<rows, cols>>, Block(r, c, <<rows, cols>>)>> :
        <<rows, cols, r, c>> \in
            { q \in (2 .. 4 + Slack) \X (2 .. 4 + Slack) \X (0 .. 2 + Slack) \X (0 .. 2 + Slack) :
                q[3] + 1 < q[1] /\ q[4] + 1 < q[2] } }

\* the blinker of the claim on boards of 11 x 11 cells and more
BlinkerInputs ==
    { <<shp, BlinkerH(shp)>> : shp \in (11 .. 11 + Slack) \X (11 .. 11 + Slack) }

\* every glider that fits on a board of 5 x 5 up to (6 + Slack) x (6 + Slack) cells
GliderInputs ==
    { <<<<rows, cols>>, Glider(r, c, <<rows, cols>>)>> :
        <<rows, cols, r, c>> \in
            { q \in (5 .. 6 + Slack) \X (5 .. 6 + Slack) \X (0 .. 4 + Slack) \X (0 .. 4 + Slack) :
                q[3] + 2 < q[1] /\ q[4] + 2 < q[2] } }

\* what from_indices is called with: every index set of every small shape,
\* and the patterns on larger boards
IndexInputs ==
    { <<shp, list_>> \in Shapes \X SUBSET Range(MaxCells) : list_ \subseteq Range(Rows(shp) * Cols(shp)) }
    \cup BlockInputs \cup BlinkerInputs \cup GliderInputs

----------------------------------------------------------------------------
(* Actions *)

Init ==
    /\ pc = "start"
    /\ call = [fn |-> "none"]
    /\ shape = <<0, 0>>
    /\ board = EmptyList
    /\ alive_cells = {}
    /\ generation = 0
    /\ op = [name |-> "none", idx |-> 0, value |-> FALSE]
    /\ ret = FALSE
    /\ raised = "none"
    /\ frame = IdleFrame

\* Board(shape)
BoardDefault ==
    \E shp \in Shapes :
        /\ pc = "start"
        /\ call' = [fn |-> "Board", shape |-> shp]
        /\ Board__init__(shp, default_initial(shp))
        /\ UNCHANGED <<alive_cells, generation, op, ret, frame>>

\* Board(shape, initial=cells)
BoardExplicit ==
    \E shp \in Shapes, initial \in CellLists :
        /\ pc = "start"
        /\ call' = [fn |-> "Board_initial", shape |-> shp, initial |-> initial]
        /\ Board__init__(shp, initial)
        /\ UNCHANGED <<alive_cells, generation, op, ret, frame>>

\* Board.from_list(shape, list_)
FromList ==
    \E shp \in Shapes, list_ \in IntLists :
        /\ pc = "start"
        /\ call' = [fn |-> "from_list", shape |-> shp, list_ |-> list_]
        /\ Board__init__(shp, from_list_initial(list_))
        /\ UNCHANGED <<alive_cells, generation, op, ret, frame>>

\* Board.from_indices(shape, list_)
FromIndices ==
    \E input \in IndexInputs :
        /\ pc = "start"
        /\ call' = [fn |-> "from_indices", shape |-> input[1], list_ |-> input[2]]
        /\ Board__init__(input[1], from_indices_initial(input[1], input[2]))
        /\ UNCHANGED <<alive_cells, generation, op, ret, frame>>

\* Life(board)
LifeInit ==
    /\ pc = "board"
    /\ pc' = "life"
    /\ alive_cells' = board_setter(board)
    /\ generation' = 0
    /\ UNCHANGED <<call, shape, board, op, ret, raised, frame>>

\* update() without self.generation += 1
Update_no_increment ==
    /\ pc = "life"
    /\ generation < MaxGen
    /\ LET births == to_set_alive(board, alive_cells, shape)
           deaths == to_set_dead(board, alive_cells, shape)
           after  == apply_deaths(apply_births([cells |-> board, alive |-> alive_cells],
                                               births), deaths)
       IN  /\ board' = after.cells
           /\ alive_cells' = after.alive
    /\ UNCHANGED <<pc, call, shape, generation, op, ret, raised, frame>>

\* Life.update()
Update ==
    /\ pc = "life"
    /\ generation < MaxGen
    /\ LET births == to_set_alive(board, alive_cells, shape)
           deaths == to_set_dead(board, alive_cells, shape)
           after  == apply_deaths(apply_births([cells |-> board, alive |-> alive_cells],
                                               births), deaths)
       IN  /\ board' = after.cells
           /\ alive_cells' = after.alive
    /\ generation' = generation + 1
    /\ UNCHANGED <<pc, call, shape, op, ret, raised, frame>>

\* the boards update() is followed on pass by pass have up to MaxStepCells cells
MaxStepCells == 6

StepInputs ==
    { <<shp, list_>> \in Shapes \X SUBSET Range(MaxStepCells) :
        /\ Rows(shp) * Cols(shp) <= MaxStepCells
        /\ list_ \subseteq Range(Rows(shp) * Cols(shp)) }

\* Board.from_indices(shape, list_) for a board of up to MaxStepCells cells
FromIndicesSmall ==
    \E input \in StepInputs :
        /\ pc = "start"
        /\ call' = [fn |-> "from_indices", shape |-> input[1], list_ |-> input[2]]
        /\ Board__init__(input[1], from_indices_initial(input[1], input[2]))
        /\ UNCHANGED <<alive_cells, generation, op, ret, frame>>

\* update() is entered: the candidate set is computed and the lists are empty
UpdateBegin ==
    /\ pc = "life"
    /\ frame.pc = "idle"
    /\ generation < MaxGen
    /\ frame' = [pc |-> "update",
                 todo |-> cells_to_check(alive_cells, shape),
                 to_set_alive |-> <<>>, to_set_dead |-> <<>>,
                 born |-> 0, died |-> 0,
                 entry |-> [cells |-> board, alive |-> alive_cells]]
    /\ UNCHANGED <<pc, call, shape, board, alive_cells, generation, op, ret, raised>>

\* the loop over the candidates that sets the state of a cell as soon as it
\* is classified
Classify_sets_at_once ==
    /\ frame.pc = "update"
    /\ \E idx \in frame.todo :
          /\ frame' = classify(frame, idx, board, alive_cells, shape)
          /\ board' = IF should_die(idx, board, alive_cells, shape)
                       THEN set_state(board, idx, FALSE)
                       ELSE IF should_resurrect(idx, board, alive_cells, shape)
                            THEN set_state(board, idx, TRUE)
                            ELSE board
    /\ UNCHANGED <<pc, call, shape, alive_cells, generation, op, ret, raised>>

\* the loop over the candidates that discards a dying cell from the alive
\* set as soon as it is classified
Classify_discards_at_once ==
    /\ frame.pc = "update"
    /\ \E idx \in frame.todo :
          /\ frame' = classify(frame, idx, board, alive_cells, shape)
          /\ alive_cells' = IF should_die(idx, board, alive_cells, shape)
                             THEN alive_cells \ {idx}
                             ELSE alive_cells
    /\ UNCHANGED <<pc, call, shape, board, generation, op, ret, raised>>

\* one pass of the loop over the candidates, which a set hands out in an
\* order of its own
Classify ==
    /\ frame.pc = "update"
    /\ \E idx \in frame.todo :
          frame' = classify(frame, idx, board, alive_cells, shape)
    /\ UNCHANGED <<pc, call, shape, board, alive_cells, generation, op, ret, raised>>

\* one pass of the loop over to_set_alive, entered when the candidates are
\* exhausted
ApplyBirth ==
    /\ frame.pc = "update"
    /\ frame.todo = {}
    /\ frame.born < Len(frame.to_set_alive)
    /\ LET idx   == frame.to_set_alive[frame.born + 1]
           after == apply_births([cells |-> board, alive |-> alive_cells], {idx})
       IN  /\ board' = after.cells
           /\ alive_cells' = after.alive
    /\ frame' = [frame EXCEPT !.born = @ + 1]
    /\ UNCHANGED <<pc, call, shape, generation, op, ret, raised>>

\* one pass of the loop over to_set_dead, entered when to_set_alive is
\* exhausted
ApplyDeath ==
    /\ frame.pc = "update"
    /\ frame.todo = {}
    /\ frame.born = Len(frame.to_set_alive)
    /\ frame.died < Len(frame.to_set_dead)
    /\ LET idx   == frame.to_set_dead[frame.died + 1]
           after == apply_deaths([cells |-> board, alive |-> alive_cells], {idx})
       IN  /\ board' = after.cells
           /\ alive_cells' = after.alive
    /\ frame' = [frame EXCEPT !.died = @ + 1]
    /\ UNCHANGED <<pc, call, shape, generation, op, ret, raised>>

\* self.generation += 1, and update() returns
UpdateEnd ==
    /\ frame.pc = "update"
    /\ frame.todo = {}
    /\ frame.born = Len(frame.to_set_alive)
    /\ frame.died = Len(frame.to_set_dead)
    /\ generation' = generation + 1
    /\ frame' = IdleFrame
    /\ UNCHANGED <<pc, call, shape, board, alive_cells, op, ret, raised>>

\* the indices a caller passes to board[idx]: in range, and up to two beyond
\* either end
IndexArgs == (0 - Length(board) - 2) .. (Length(board) + 1)

\* board[idx], also as life.board[idx]
GetItem ==
    \E idx \in IndexArgs :
        /\ pc \in {"board", "life"}
        /\ op' = [name |-> "getitem", idx |-> idx, value |-> FALSE]
        /\ LET valid == validate_idx(idx, Length(board))
               at    == ListIndex(valid.idx, Length(board))
           IN  IF valid.ok /\ at.ok
               THEN raised' = "none" /\ ret' = board[at.pos]
               ELSE raised' = "IndexError" /\ ret' = ret
        /\ UNCHANGED <<pc, call, shape, board, alive_cells, generation, frame>>

\* board[idx] = Cell(value) on a list that grows when idx is its length
SetItem_grows ==
    \E idx \in IndexArgs, value \in BOOLEAN :
        /\ pc \in {"board", "life"}
        /\ op' = [name |-> "setitem", idx |-> idx, value |-> value]
        /\ raised' = "none"
        /\ board' = [i \in DOMAIN board \cup {idx} |-> IF i = idx THEN value ELSE board[i]]
        /\ UNCHANGED <<pc, call, shape, alive_cells, generation, ret, frame>>

\* board[idx] = Cell(value), also as life.board[idx] = Cell(value)
SetItem ==
    \E idx \in IndexArgs, value \in BOOLEAN :
        /\ pc \in {"board", "life"}
        /\ op' = [name |-> "setitem", idx |-> idx, value |-> value]
        /\ LET valid == validate_idx(idx, Length(board))
               at    == ListIndex(valid.idx, Length(board))
           IN  IF valid.ok /\ at.ok
               THEN raised' = "none" /\ board' = [board EXCEPT ![at.pos] = value]
               ELSE raised' = "IndexError" /\ board' = board
        /\ UNCHANGED <<pc, call, shape, alive_cells, generation, ret, frame>>

\* the shapes of the boards that are written to while in use
SmallShapes == { shp \in Shapes : Rows(shp) * Cols(shp) <= MaxListLen }

\* Board(shape) for a small shape
BoardDefaultSmall ==
    \E shp \in SmallShapes :
        /\ pc = "start"
        /\ call' = [fn |-> "Board", shape |-> shp]
        /\ Board__init__(shp, default_initial(shp))
        /\ UNCHANGED <<alive_cells, generation, op, ret, frame>>

\* board[idx].set_state(state) that also keeps the alive set of the Life
SetState_joint ==
    \E idx \in IndexArgs, state \in BOOLEAN :
        /\ pc \in {"board", "life"}
        /\ op' = [name |-> "set_state", idx |-> idx, value |-> state]
        /\ LET valid == validate_idx(idx, Length(board))
               at    == ListIndex(valid.idx, Length(board))
           IN  IF valid.ok /\ at.ok
               THEN /\ raised' = "none"
                    /\ board' = set_state(board, at.pos, state)
                    /\ alive_cells' = IF pc = "life"
                                       THEN (alive_cells \ {at.pos}) \cup (IF state THEN {at.pos} ELSE {})
                                       ELSE alive_cells
               ELSE raised' = "IndexError" /\ UNCHANGED <<board, alive_cells>>
        /\ UNCHANGED <<pc, call, shape, generation, ret, frame>>

\* board[idx].set_state(state) by the holder of the board, or by another
\* party on life.board: set_alive() and set_dead() are set_state(True / False)
SetState ==
    \E idx \in IndexArgs, state \in BOOLEAN :
        /\ pc \in {"board", "life"}
        /\ op' = [name |-> "set_state", idx |-> idx, value |-> state]
        /\ LET valid == validate_idx(idx, Length(board))
               at    == ListIndex(valid.idx, Length(board))
           IN  IF valid.ok /\ at.ok
               THEN raised' = "none" /\ board' = set_state(board, at.pos, state)
               ELSE raised' = "IndexError" /\ board' = board
        /\ UNCHANGED <<pc, call, shape, alive_cells, generation, ret, frame>>

\* life.board = new_board that adds the new alive cells to the old set
SetBoard_keeps_alive ==
    \E shp \in SmallShapes, initial \in CellLists :
        /\ pc = "life"
        /\ Length(initial) = Rows(shp) * Cols(shp)
        /\ call' = [fn |-> "Board_initial", shape |-> shp, initial |-> initial]
        /\ op' = [name |-> "set_board", idx |-> 0, value |-> FALSE]
        /\ shape' = shp
        /\ board' = initial
        /\ alive_cells' = alive_cells \cup board_setter(initial)
        /\ UNCHANGED <<pc, generation, ret, raised, frame>>

\* life.board = new_board, new_board = Board(shape, initial=cells)
SetBoard ==
    \E shp \in SmallShapes, initial \in CellLists :
        /\ pc = "life"
        /\ Length(initial) = Rows(shp) * Cols(shp)
        /\ call' = [fn |-> "Board_initial", shape |-> shp, initial |-> initial]
        /\ op' = [name |-> "set_board", idx |-> 0, value |-> FALSE]
        /\ shape' = shp
        /\ board' = initial
        /\ alive_cells' = board_setter(initial)
        /\ UNCHANGED <<pc, generation, ret, raised, frame>>

\* the coordinates a caller passes to board[row, col]: on the grid, and up
\* to a row and a grid's width beyond
RowArgs == (0 - 1) .. Rows(shape)

ColArgs == (0 - Cols(shape)) .. (2 * Cols(shape) - 1)

\* board[row, col]
GetItem2D ==
    \E row \in RowArgs, col \in ColArgs :
        /\ pc = "board"
        /\ op' = [name |-> "getitem2d", row |-> row, col |-> col, value |-> FALSE]
        /\ LET valid == validate_idx2(<<row, col>>, shape, Length(board))
               at    == ListIndex(valid.idx, Length(board))
           IN  IF valid.ok /\ at.ok
               THEN raised' = "none" /\ ret' = board[at.pos]
               ELSE raised' = "IndexError" /\ ret' = ret
        /\ UNCHANGED <<pc, call, shape, board, alive_cells, generation, frame>>

\* board[row, col] = Cell(value)
SetItem2D ==
    \E row \in RowArgs, col \in ColArgs, value \in BOOLEAN :
        /\ pc = "board"
        /\ op' = [name |-> "setitem2d", row |-> row, col |-> col, value |-> value]
        /\ LET valid == validate_idx2(<<row, col>>, shape, Length(board))
               at    == ListIndex(valid.idx, Length(board))
           IN  IF valid.ok /\ at.ok
               THEN raised' = "none" /\ board' = [board EXCEPT ![at.pos] = value]
               ELSE raised' = "IndexError" /\ board' = board
        /\ UNCHANGED <<pc, call, shape, alive_cells, generation, ret, frame>>

----------------------------------------------------------------------------
(* Specifications *)

\* a board is built, a Life is built on it and updated
Next ==
    \/ BoardDefault
    \/ BoardExplicit
    \/ FromList
    \/ FromIndices
    \/ LifeInit
    \/ Update

Spec == Init /\ [][Next]_vars

\* a board is built from a list of Cells and its cells are read and written
NextBoard ==
    \/ BoardExplicit
    \/ GetItem
    \/ SetItem

SpecBoard == Init /\ [][NextBoard]_vars

\* a small board is built and held by a Life that is updated, while its
\* cells are read and written through the board
NextAccess ==
    \/ BoardDefaultSmall
    \/ LifeInit
    \/ Update
    \/ GetItem
    \/ SetItem

SpecAccess == Init /\ [][NextAccess]_vars

\* a small board is built and filled, then held by a Life that is updated
\* while another party changes the state of its cells
NextAlias ==
    \/ BoardDefaultSmall
    \/ LifeInit
    \/ Update
    \/ SetState

SpecAlias == Init /\ [][NextAlias]_vars

\* a Life is built and updated, and its board is replaced
NextReplace ==
    \/ BoardExplicit
    \/ LifeInit
    \/ Update
    \/ SetBoard

SpecReplace == Init /\ [][NextReplace]_vars

\* a board is built and its cells are read and written by coordinates
NextBoard2D ==
    \/ BoardExplicit
    \/ GetItem2D
    \/ SetItem2D

SpecBoard2D == Init /\ [][NextBoard2D]_vars

\* a Life is built and updated, update() running one loop pass at a time
NextSteps ==
    \/ FromIndicesSmall
    \/ LifeInit
    \/ UpdateBegin
    \/ Classify
    \/ ApplyBirth
    \/ ApplyDeath
    \/ UpdateEnd

SpecSteps == Init /\ [][NextSteps]_vars

----------------------------------------------------------------------------
(* What the claims speak of *)

\* the cells the constructor call made alive
InitialAlive ==
    CASE call.fn = "from_indices" -> call.list_
      [] call.fn = "from_list" -> { i \in DOMAIN call.list_ : call.list_[i] # 0 }
      [] call.fn = "Board_initial" -> { i \in DOMAIN call.initial : call.initial[i] }
      [] OTHER -> {}

\* the flat indices whose board cell is alive
AliveOnBoard == { i \in Range(Rows(shape) * Cols(shape)) : board[i] }

\* cells i and j of the grid touch: different cells, at most one row and one
\* column apart
Touch(i, j, shp) ==
    LET ri == i \div Cols(shp)
        ci == i % Cols(shp)
        rj == j \div Cols(shp)
        cj == j % Cols(shp)
    IN  /\ i # j
        /\ ri - rj \in {-1, 0, 1}
        /\ ci - cj \in {-1, 0, 1}

\* the classic rule applied to every cell of the grid at once
LifeStep(cells, shp) ==
    [i \in DOMAIN cells |->
        LET n == Cardinality({ j \in DOMAIN cells : cells[j] /\ Touch(i, j, shp) })
        IN  IF cells[i] THEN n \in {2, 3} ELSE n = 3]

----------------------------------------------------------------------------
(* Claims *)

\* C1: in every state of a Life, right after construction and after every
\* update(), the cached alive set is exactly the set of flat indices whose
\* board cell is alive.
C1_AliveSetIsBoard == pc = "life" => alive_cells = AliveOnBoard

\* C1 witness: a Life updated at least twice in which cells were born and
\* cells died.
C1_Witness ==
    /\ pc = "life"
    /\ generation >= 2
    /\ alive_cells # {}
    /\ InitialAlive \ alive_cells # {}
    /\ alive_cells \ InitialAlive # {}

\* C2: every update() turns the board into the grid the classic rule gives
\* when applied to all cells of the whole grid at once (survival on 2 or 3
\* neighbours, birth on exactly 3, dead otherwise).
C2_UpdateIsLifeStep ==
    [][generation' = generation + 1 => board' = LifeStep(board, shape)]_vars

\* C2 witness: after one update() of a board, a cell has died, a cell was
\* born and a cell survived.
C2_Witness ==
    /\ pc = "life"
    /\ generation = 1
    /\ InitialAlive \ alive_cells # {}
    /\ alive_cells \ InitialAlive # {}
    /\ alive_cells \cap InitialAlive # {}

\* C3: once a Life has no alive cell, every step leaves the board as it is,
\* every cell dead and the alive set empty.
C3_DeadIsAbsorbing ==
    [][(pc = "life" /\ dead(alive_cells)) =>
          /\ board' = board
          /\ \A i \in DOMAIN board' : ~board'[i]
          /\ dead(alive_cells')]_vars

\* C3 witness: a Life that had alive cells, lost them all and was updated
\* again at least twice.
C3_Witness ==
    /\ pc = "life"
    /\ InitialAlive # {}
    /\ InitialAlive \subseteq Range(Rows(shape) * Cols(shape))
    /\ Cardinality(InitialAlive) = 2
    /\ generation >= 3
    /\ dead(alive_cells)

\* C4: a board read or write with a flat index < 0 or >= rows * cols raises
\* an out-of-bounds error and leaves the board unchanged.
C4_OutOfBoundsRejected ==
    [][(/\ op'.name \in {"getitem", "setitem"}
        /\ (op'.idx < 0 \/ op'.idx >= Rows(shape) * Cols(shape)))
       => (raised' = "IndexError" /\ board' = board)]_vars

\* the list a constructor call was given
CallList == IF call.fn = "from_list" THEN call.list_ ELSE call.initial

\* C5: a board built from an explicit list (Board(shape, initial=...) or
\* Board.from_list) fails with an AssertionError and yields no board when the
\* list's length differs from rows * cols, and succeeds, with the shape given
\* and that many cells, when it is equal.
C5_ShapeMismatchFails ==
    call.fn \in {"Board_initial", "from_list"} =>
        IF Length(CallList) # Rows(call.shape) * Cols(call.shape)
        THEN /\ pc = "failed"
             /\ raised = "AssertionError"
             /\ board = EmptyList
        ELSE /\ pc \in {"board", "life"}
             /\ raised = "none"
             /\ shape = call.shape
             /\ Length(board) = Length(CallList)

\* C5 witness: from_list was called with a list too long or too short for
\* a shape with cells, and failed.
C5_Witness ==
    /\ pc = "failed"
    /\ call.fn = "from_list"
    /\ Rows(call.shape) * Cols(call.shape) > 0
    /\ Length(call.list_) > 0
    /\ Length(call.list_) # Rows(call.shape) * Cols(call.shape)

\* C6: Board.from_indices(shape, S) with S within [0, rows * cols) yields a
\* board of rows * cols cells in which cell i is alive iff i is in S, and a
\* Life built on it has the alive set S.
C6_FromIndicesRoundTrip ==
    (/\ call.fn = "from_indices"
     /\ call.list_ \subseteq Range(Rows(call.shape) * Cols(call.shape)))
    => /\ pc \in {"board", "life"}
       /\ shape = call.shape
       /\ (pc = "board" \/ generation = 0) =>
             /\ DOMAIN board = Range(Rows(shape) * Cols(shape))
             /\ \A i \in DOMAIN board : board[i] <=> i \in call.list_
       /\ (pc = "life" /\ generation = 0) => alive_cells = call.list_

\* C6 witness: a Life just built on a from_indices board with some cells
\* alive and some dead, the first cell among the dead.
C6_Witness ==
    /\ pc = "life"
    /\ generation = 0
    /\ call.fn = "from_indices"
    /\ call.list_ # {}
    /\ 0 \notin call.list_
    /\ Cardinality(call.list_) < Rows(shape) * Cols(shape)

\* the call built the blinker of the claim on a board of 11 x 11 or more
BlinkerBuilt ==
    /\ call.fn = "from_indices"
    /\ Rows(call.shape) >= 11
    /\ Cols(call.shape) >= 11
    /\ call.list_ = BlinkerH(call.shape)

\* C7: the blinker (5,4),(5,5),(5,6) on a board of 11 x 11 or more is
\* (4,5),(5,5),(6,5) after every odd number of updates and itself again
\* after every even number.
C7_BlinkerOscillates ==
    (pc = "life" /\ BlinkerBuilt) =>
        LET expected == IF generation % 2 = 0 THEN BlinkerH(shape) ELSE BlinkerV(shape)
        IN  /\ alive_cells = expected
            /\ AliveOnBoard = expected

\* C7 witness: the blinker after its fourth update, on a board that is not
\* square.
C7_Witness ==
    /\ pc = "life"
    /\ BlinkerBuilt
    /\ generation = 4
    /\ Rows(shape) # Cols(shape)

\* the call built a board whose only alive cells are one 2x2 block
BlockBuilt ==
    /\ call.fn = "from_indices"
    /\ \E r \in 0 .. Rows(call.shape) - 2, c \in 0 .. Cols(call.shape) - 2 :
            call.list_ = Block(r, c, call.shape)

\* C8: a board whose only alive cells are one 2x2 block, anywhere on the
\* grid, keeps exactly these cells alive through every update and never
\* becomes dead.
C8_BlockIsStill ==
    (pc = "life" /\ BlockBuilt) =>
        /\ alive_cells = call.list_
        /\ AliveOnBoard = call.list_
        /\ ~dead(alive_cells)

\* C8 witness: a block away from every edge, and one in a corner, after
\* several updates.
C8_Witness ==
    /\ pc = "life"
    /\ generation >= 3
    /\ call.fn = "from_indices"
    /\ \/ /\ Rows(shape) >= 4 /\ Cols(shape) >= 4
          /\ call.list_ = Block(1, 1, shape)
       \/ call.list_ = Block(0, 0, shape)

\* the glider in the box at (r, c) keeps, with its next four generations
\* (rows r .. r+3, columns c .. c+3), one cell away from every boundary
GliderFree(r, c, shp) ==
    /\ 1 <= r /\ r + 3 <= Rows(shp) - 2
    /\ 1 <= c /\ c + 3 <= Cols(shp) - 2

\* C9: the glider placed with its next four generations at least one cell
\* away from every boundary is, after exactly 4 updates, the same glider one
\* row down and one column right, and nothing else is alive.
C9_GliderTranslates ==
    (pc = "life" /\ generation = 4 /\ call.fn = "from_indices") =>
        \A r \in 1 .. Rows(shape), c \in 1 .. Cols(shape) :
            (GliderFree(r, c, shape) /\ call.list_ = Glider(r, c, shape)) =>
                /\ alive_cells = Glider(r + 1, c + 1, shape)
                /\ AliveOnBoard = Glider(r + 1, c + 1, shape)

\* C9 witness: a free glider after 4 updates, on a board with room to spare.
C9_Witness ==
    /\ pc = "life"
    /\ generation = 4
    /\ call.fn = "from_indices"
    /\ \E r \in 1 .. Rows(shape), c \in 1 .. Cols(shape) :
            /\ GliderFree(r, c, shape)
            /\ r # c
            /\ call.list_ = Glider(r, c, shape)

\* the cells (row + dr, col + dc) around (row, col) that lie on the grid
Around(row, col, shp) ==
    { Flat(row + d[1], col + d[2], shp) :
        d \in { e \in {-1, 0, 1} \X {-1, 0, 1} :
                  /\ e # <<0, 0>>
                  /\ 0 <= row + e[1] /\ row + e[1] < Rows(shp)
                  /\ 0 <= col + e[2] /\ col + e[2] < Cols(shp) } }

\* C10: on every board the neighbour set of every cell (row, col) is exactly
\* the flat indices of the cells (row+dr, col+dc) on the grid, without the
\* cell itself; and every update() of a board whose corner (0,0) is dead
\* with its three neighbours alive makes the corner alive.
C10_NeighboursClipped ==
    /\ [](pc \in {"board", "life"} =>
            \A row \in 0 .. Rows(shape) - 1, col \in 0 .. Cols(shape) - 1 :
                get_neighbours_idx(Flat(row, col, shape), shape) = Around(row, col, shape))
    /\ [][(/\ pc = "life"
            /\ generation' = generation + 1
            /\ Rows(shape) >= 2 /\ Cols(shape) >= 2
            /\ ~board[Flat(0, 0, shape)]
            /\ board[Flat(0, 1, shape)]
            /\ board[Flat(1, 0, shape)]
            /\ board[Flat(1, 1, shape)])
           => (board'[0] /\ 0 \in alive_cells')]_vars

\* C10 witness: a Life on a board of 3 x 3 whose dead corner had its three
\* neighbours alive was updated, and the corner is alive.
C10_Witness ==
    /\ pc = "life"
    /\ generation = 1
    /\ Rows(shape) = 3 /\ Cols(shape) = 3
    /\ 0 \notin InitialAlive
    /\ {Flat(0, 1, shape), Flat(1, 0, shape), Flat(1, 1, shape)} \subseteq InitialAlive
    /\ board[0]
    /\ 0 \in alive_cells

\* the alive cells of a grid and the cells that touch one
Frontier(cells, shp) ==
    { i \in DOMAIN cells : cells[i] \/ \E j \in DOMAIN cells : cells[j] /\ Touch(i, j, shp) }

\* C14: the candidate set of every update() is the alive cells and their
\* neighbours on the grid; every cell outside it is dead with no alive
\* neighbour before the call and dead, outside the alive set, after it.
C14_FrontierFrame ==
    [][generation' = generation + 1 =>
          /\ cells_to_check(alive_cells, shape) = Frontier(board, shape)
          /\ \A i \in DOMAIN board \ cells_to_check(alive_cells, shape) :
                /\ ~board[i]
                /\ i \notin alive_cells
                /\ \A j \in DOMAIN board : Touch(i, j, shape) => ~board[j]
                /\ ~board'[i]
                /\ i \notin alive_cells']_vars

\* C14 witness: one update() changed a board on which some cell was
\* outside the candidate set.
C14_Witness ==
    /\ pc = "life"
    /\ generation = 1
    /\ InitialAlive # {}
    /\ alive_cells # InitialAlive
    /\ \E i \in DOMAIN board :
            /\ i \notin InitialAlive
            /\ \A j \in InitialAlive : ~Touch(i, j, shape)

\* C15: the generation counter is 0 when the Life is built, and every
\* update() adds exactly 1 to it, whatever happens to the cells.
C15_GenerationCounts ==
    [][/\ (pc = "board" /\ pc' = "life") => generation' = 0
       /\ pc = "life" => (generation' = generation + 1 /\ generation' > 0)]_vars

\* C15 witness: a Life that was built dead has been updated MaxGen times.
C15_Witness ==
    /\ pc = "life"
    /\ InitialAlive = {}
    /\ Rows(shape) * Cols(shape) > 0
    /\ dead(alive_cells)
    /\ generation = MaxGen

\* C16: on every shape with cols >= 1, flatten after unravel is the
\* identity on [0, rows * cols), unravel after flatten is the identity on
\* the coordinates of the grid, and flatten((r, c)) is r * cols + c, a flat
\* index of the grid.
C16_AddressingBijection ==
    (pc \in {"board", "life"} /\ Cols(shape) >= 1) =>
        /\ \A i \in Range(Rows(shape) * Cols(shape)) :
                flatten(unravel(i, shape), shape) = i
        /\ \A r \in 0 .. Rows(shape) - 1, c \in 0 .. Cols(shape) - 1 :
                /\ unravel(flatten(<<r, c>>, shape), shape) = <<r, c>>
                /\ flatten(<<r, c>>, shape) = r * Cols(shape) + c
                /\ flatten(<<r, c>>, shape) \in Range(Rows(shape) * Cols(shape))

\* C16 witness: a board with more columns than rows, and more than one row.
C16_Witness ==
    /\ pc = "board"
    /\ Rows(shape) = 2
    /\ Cols(shape) = 3

\* C11: whatever update() calls and cell reads and writes follow the
\* construction of a board, the board holds exactly rows * cols cells, at
\* the positions 0 .. rows * cols - 1, and its shape is the one it was
\* built with.
C11_FixedTopology ==
    pc \in {"board", "life"} =>
        /\ shape = call.shape
        /\ DOMAIN board = Range(Rows(shape) * Cols(shape))
        /\ Length(board) = Rows(call.shape) * Cols(call.shape)

\* C11 witness: a cell of the board of an updated Life was written, by an
\* index that counts from the end, and cells are alive.
C11_Witness ==
    /\ pc = "life"
    /\ generation >= 2
    /\ op.name = "setitem"
    /\ op.idx < 0
    /\ raised = "none"
    /\ Rows(shape) * Cols(shape) = MaxListLen
    /\ alive_cells # {}
    /\ AliveOnBoard # {}

\* the position of the board that board[idx] resolves to
Resolved(idx) == ListIndex(idx, Length(board)).pos

\* C17: when another party sets the state of a cell of the board a Life
\* holds, the cell takes the state and the alive set stays as it was; an
\* update() that follows raises nothing, and leaves the alive set different
\* from the alive cells of the board whenever a cell alive on the board is
\* outside the candidate set.
C17_AliasingHazard ==
    /\ [][(pc = "life" /\ generation' = generation) =>
              /\ alive_cells' = alive_cells
              /\ IF raised' = "none"
                 THEN board' = [board EXCEPT ![Resolved(op'.idx)] = op'.value]
                 ELSE board' = board]_vars
    /\ [][(pc = "life" /\ generation' = generation + 1) =>
              /\ raised' = raised
              /\ (\E i \in DOMAIN board :
                      board[i] /\ i \notin cells_to_check(alive_cells, shape))
                  => alive_cells' # { i \in DOMAIN board' : board'[i] }]_vars

\* C17 witness: a Life was updated, a cell of its board was set alive from
\* outside, and the alive set, not empty, lacks a cell that is alive on the
\* board.
C17_Witness ==
    /\ pc = "life"
    /\ generation >= 1
    /\ op.name = "set_state"
    /\ op.value
    /\ raised = "none"
    /\ alive_cells # {}
    /\ AliveOnBoard \ alive_cells # {}

\* C18: assigning a board to a Life makes the alive set exactly the alive
\* cells of the new board, the generation stays, and so in every state the
\* alive set is the alive cells of the board held and every update() is the
\* classic rule applied to that board.
C18_BoardReplaced ==
    /\ [][(pc = "life" /\ pc' = "life" /\ generation' = generation) =>
              /\ board' = call'.initial
              /\ shape' = call'.shape
              /\ alive_cells' = { i \in Range(Rows(shape') * Cols(shape')) : board'[i] }]_vars
    /\ [](pc = "life" => alive_cells = AliveOnBoard)
    /\ [][generation' = generation + 1 =>
              /\ board' = LifeStep(board, shape)
              /\ shape' = shape]_vars

\* C18 witness: the board of an updated Life, with alive cells, was replaced
\* by a smaller board, and an update changed the new board.
C18_Witness ==
    /\ pc = "life"
    /\ op.name = "set_board"
    /\ generation >= 2
    /\ Rows(shape) * Cols(shape) = 3
    /\ alive_cells # {}
    /\ alive_cells # InitialAlive

\* the coordinates (row, col) are not those of a cell of the grid
OffGrid(row, col, shp) ==
    \/ row < 0 \/ row >= Rows(shp)
    \/ col < 0 \/ col >= Cols(shp)

\* C20: a board read or write by coordinates (r, c) off the grid whose flat
\* value r * cols + c is in [0, rows * cols) raises nothing and reads, or
\* writes, the cell at that flat index.
C20_OnlyFlatIndexValidated ==
    [][(/\ op'.name \in {"getitem2d", "setitem2d"}
        /\ OffGrid(op'.row, op'.col, shape)
        /\ op'.row * Cols(shape) + op'.col \in Range(Rows(shape) * Cols(shape)))
       => /\ raised' = "none"
          /\ op'.name = "getitem2d" =>
                /\ ret' = board[op'.row * Cols(shape) + op'.col]
                /\ board' = board
          /\ op'.name = "setitem2d" =>
                board' = [board EXCEPT ![op'.row * Cols(shape) + op'.col] = op'.value]]_vars

\* C20 witness: on a board of 2 x 2, a write to (0, 2) made the cell (1, 0)
\* alive, the only one.
C20_Witness ==
    /\ pc = "board"
    /\ shape = <<2, 2>>
    /\ op.name = "setitem2d"
    /\ op.row = 0
    /\ op.col = 2
    /\ op.value
    /\ raised = "none"
    /\ AliveOnBoard = {2}


\* the entries of one of the lists of update()
Entries(list_) == { list_[k] : k \in 1 .. Len(list_) }

\* the candidates the running update() has classified so far
Classified == cells_to_check(frame.entry.alive, shape) \ frame.todo

\* the Life that update() leaves when it is run in one piece on the Life
\* life: the births applied, then the deaths
update_result(life, shp) ==
    apply_deaths(
        apply_births(life, to_set_alive(life.cells, life.alive, shp)),
        to_set_dead(life.cells, life.alive, shp))

\* C12: inside one update(), as long as a candidate is still to be classified
\* the board cells and the alive set hold the values they had when update()
\* was entered, and every candidate classified so far is in to_set_dead, in
\* to_set_alive or in neither exactly as the rule decides it on those
\* values: no birth or death of this generation has a part in it.
C12_SimultaneousUpdate ==
    frame.pc = "update" =>
        /\ frame.todo # {} =>
              /\ board = frame.entry.cells
              /\ alive_cells = frame.entry.alive
        /\ \A idx \in Classified :
              LET dies  == should_die(idx, frame.entry.cells, frame.entry.alive, shape)
                  lives == should_resurrect(idx, frame.entry.cells, frame.entry.alive, shape)
              IN  /\ idx \in Entries(frame.to_set_dead) <=> dies
                  /\ idx \in Entries(frame.to_set_alive) <=> (~dies /\ lives)
        /\ Entries(frame.to_set_dead) \cup Entries(frame.to_set_alive) \subseteq Classified

\* a classification is finished, nothing is written yet, and a cell that
\* stays alive has a neighbour that is marked to die
C12_Witness ==
    /\ frame.pc = "update"
    /\ frame.todo = {}
    /\ frame.born = 0
    /\ frame.died = 0
    /\ \E idx \in frame.entry.alive \ Entries(frame.to_set_dead) :
          get_neighbours_idx(idx, shape) \cap Entries(frame.to_set_dead) # {}

\* C13: in every update(), to_set_alive and to_set_dead have no index in
\* common, neither holds an index twice, every index in to_set_dead was an
\* alive cell and every index in to_set_alive a dead cell when update() was
\* entered.
C13_ListsDisjoint ==
    frame.pc = "update" =>
        /\ Entries(frame.to_set_alive) \cap Entries(frame.to_set_dead) = {}
        /\ Cardinality(Entries(frame.to_set_alive)) = Len(frame.to_set_alive)
        /\ Cardinality(Entries(frame.to_set_dead)) = Len(frame.to_set_dead)
        /\ \A idx \in Entries(frame.to_set_dead) :
              frame.entry.cells[idx] /\ idx \in frame.entry.alive
        /\ \A idx \in Entries(frame.to_set_alive) :
              ~frame.entry.cells[idx] /\ idx \notin frame.entry.alive

\* a classification is finished with cells in both lists, and a cell that
\* stays alive has three alive neighbours
C13_Witness ==
    /\ frame.pc = "update"
    /\ frame.todo = {}
    /\ frame.to_set_alive # <<>>
    /\ Len(frame.to_set_dead) >= 2
    /\ \E idx \in frame.entry.alive \ Entries(frame.to_set_dead) :
          Cardinality(get_alive_neighbours(idx, frame.entry.alive, shape)) = 3

\* C19: whatever order the candidates are handed out in, and so whatever
\* order the births and the deaths are collected and applied in, the board
\* and the alive set update() returns with are the ones update() run in one
\* piece gives for the Life it was entered with.
C19_OrderIndependent ==
    [][ (frame.pc = "update" /\ frame'.pc = "idle") =>
            LET result == update_result(frame.entry, shape)
            IN  /\ board' = result.cells
                /\ alive_cells' = result.alive ]_vars

\* an update() is through whose two lists were collected against the order of
\* the indices, and a cell with a dying neighbour neither died nor was born
C19_Witness ==
    /\ frame.pc = "update"
    /\ frame.todo = {}
    /\ frame.born = Len(frame.to_set_alive)
    /\ frame.died = Len(frame.to_set_dead)
    /\ Len(frame.to_set_dead) >= 2
    /\ frame.to_set_dead[1] > frame.to_set_dead[2]
    /\ \E idx \in frame.entry.alive \ Entries(frame.to_set_dead) :
          get_neighbours_idx(idx, shape) \cap Entries(frame.to_set_dead) # {}

====
